---- MODULE Spec2Model ----
(***************************************************************************)
(* B53 switch register access through MII registers (b53_mdio.c).          *)
(*                                                                         *)
(* The model follows one device handle (struct b53_device) through calls   *)
(* of the ten b53_io_ops of b53_mdio_ops.  Every mdiobus_read and          *)
(* mdiobus_write of the driver is one step, so that the order of the bus   *)
(* transactions of an access is observable in `log'.                       *)
(*                                                                         *)
(* Values wider than 16 bits are kept as little-endian tuples of four      *)
(* 16-bit limbs (limb 1 = bits 0..15), because the driver only ever moves  *)
(* them in 16-bit pieces; C integer conversions (int -> u8/u16/u32/u64)    *)
(* are spelled out on the limbs.                                           *)
(*                                                                         *)
(* The MDIO bus and the switch behind it are the environment.  Two         *)
(* environments are specified:                                             *)
(*   env = "any"     any bus: a transaction may fail with a negative errno *)
(*                   (at most MaxFaults per access), status reads report   *)
(*                   pending or complete at will, data register k reads    *)
(*                   as DataWord(k).                            (Spec)     *)
(*   env = "regfile" a fault-free bus in front of a register file that     *)
(*                   commits the staged data slots on a WRITE trigger and  *)
(*                   loads them on a READ trigger.              (SpecDev)  *)
(* SpecLive is Spec with the caller's progress made fair.  SpecHandles,    *)
(* SpecBus and SpecCallers run two callers over the register file: on two  *)
(* handles of two buses, on two handles of one bus, and on one handle.     *)
(***************************************************************************)
EXTENDS Integers, Sequences, FiniteSets, TLC

VARIABLES
    current_page,   \* dev->current_page (u8)
    pc,             \* position of the caller inside the current access
    fn,             \* the call in progress: function, width, page, reg, value
    i,              \* loop counter of the function that is executing
    temp,           \* the local `temp' of the 32/48/64 bit functions (limbs)
    val,            \* *val of the read functions (limbs), <<>> while unwritten
    ret,            \* value returned to the caller of the b53_io_ops function
    log,            \* bus transactions issued by the current access, in order
    nfault,         \* transactions of the current access that failed
    entry_page,     \* dev->current_page when the current access was called
    prev,           \* summary of the previous access on this handle
    last,           \* the previous call and its result (kept when env = "regfile")
    nacc,           \* number of accesses completed on this handle
    env,            \* which environment drives the bus
    dev,            \* the switch behind the bus (tracked when env = "regfile")
    selected,       \* page of the last page-select write that succeeded on
                    \* this handle, 0xff when there was none (history)
    preempted,      \* the caller was switched out in the middle of this access
    sharing,        \* what the two callers share: see `Switch'
    parked,         \* the state of the caller that is not running
    nswitch         \* number of switches between the callers so far

vars == <<current_page, pc, fn, i, temp, val, ret, log, nfault, entry_page,
          prev, last, nacc, env, dev, selected, preempted, sharing, parked,
          nswitch>>

(***************************************************************************)
(* Bounds of the model.                                                    *)
(***************************************************************************)
MaxPage == 1        \* pages 0..MaxPage and page 0xff are requested
MaxFaults == 1      \* failing bus transactions per access (env = "any")
MaxAccesses == 2    \* accesses per handle
MaxSwitches == 2    \* switches between two callers

(***************************************************************************)
(* Constants of b53_mdio.c.                                                *)
(***************************************************************************)
REG_MII_PAGE == 16
REG_MII_ADDR == 17
REG_MII_DATA0 == 24
REG_MII_PAGE_ENABLE == 1
REG_MII_ADDR_WRITE == 1
REG_MII_ADDR_READ == 2
EIO == 5
PAGE_UNKNOWN == 255

\* number of iterations of the completion loop of b53_mdio_op
PollAttemptsOff == 5 + 1
PollAttempts == 5

W16 == 65536

(***************************************************************************)
(* Bit operations of C on naturals.                                        *)
(***************************************************************************)
RECURSIVE BitAnd(_, _)
BitAnd(a, b) ==
    IF a = 0 \/ b = 0 THEN 0
    ELSE (IF a % 2 = 1 /\ b % 2 = 1 THEN 1 ELSE 0) + 2 * BitAnd(a \div 2, b \div 2)

RECURSIVE BitOr(_, _)
BitOr(a, b) ==
    IF a = 0 THEN b
    ELSE IF b = 0 THEN a
    ELSE (IF a % 2 = 1 \/ b % 2 = 1 THEN 1 ELSE 0) + 2 * BitOr(a \div 2, b \div 2)

\* (u16) of an int
U16(r) == r % W16

\* an int (the return value of mdiobus_read) converted to u32 and to u64:
\* two's complement, sign-extended
IntToU32(r) == <<r % W16, (r \div W16) % W16, 0, 0>>
IntToU64(r) ==
    <<r % W16, (r \div W16) % W16,
      IF r < 0 THEN W16 - 1 ELSE 0, IF r < 0 THEN W16 - 1 ELSE 0>>

\* int << 16 assigned to a u32 (the kernel is built with wrapping shifts)
IntShl16ToU32(r) == <<0, r % W16, 0, 0>>

LimbOr(a, b) == [k \in 1..4 |-> BitOr(a[k], b[k])]
\* u64 <<= 16 and u32/u64 >>= 16
Shl16(a) == <<0, a[1], a[2], a[3]>>
Shr16None(a) == a
Shr16(a) == <<a[2], a[3], a[4], 0>>

Zero == <<0, 0, 0, 0>>
NoVal == <<>>

(***************************************************************************)
(* The ten functions of b53_mdio_ops: their width and the inputs tried.    *)
(***************************************************************************)
Widths == {8, 16, 32, 48, 64}

\* number of 16-bit data registers each function moves: the single
\* REG_MII_DATA0 access of the 8/16 bit functions, the two of read32 and the
\* loop bounds 2, 3, 4 of write32, read48/write48, read64/write64
NSlots(w) ==
    CASE w = 8 -> 1 [] w = 16 -> 1 [] w = 32 -> 2 [] w = 48 -> 3 [] w = 64 -> 4

Pages == (0..MaxPage) \cup {PAGE_UNKNOWN}
Regs == {52}

\* values handed to writeN, of the C type of its `value' parameter
Values(w) ==
    CASE w = 8  -> {<<171, 0, 0, 0>>, <<255, 0, 0, 0>>}
      [] w = 16 -> {<<258, 0, 0, 0>>, <<65535, 0, 0, 0>>}
      [] w = 32 -> {<<22136, 4660, 0, 0>>, <<65535, 32769, 0, 0>>}
      [] w = 48 -> {<<3, 2, 1, 0>>, <<65535, 32768, 65535, 0>>}
      [] w = 64 -> {<<2, 1, 0, 0>>, <<52719, 35243, 17767, 33059>>}

\* what two callers call: the states of two callers multiply, so each of them
\* draws its calls from the one-register and the four-register functions and
\* from one value per width
CallWidths == IF sharing = "none" THEN Widths ELSE {16, 64}
CallValues(w) ==
    IF sharing = "none" THEN Values(w)
    ELSE IF w = 16 THEN {<<258, 0, 0, 0>>}
    ELSE {<<52719, 35243, 17767, 33059>>}

(***************************************************************************)
(* The environment: struct mii_bus behind mdiobus_read and mdiobus_write.  *)
(***************************************************************************)
\* negative errnos a bus transaction may return: -EIO (its low two bits are
\* set) and -EBUSY (-16, its low two bits are clear)
Errnos == {-EIO, -16}

\* the word data register k holds when the device is not tracked: high bit
\* set, different in every register
DataWord(k) == 32769 + 4096 * k

MayFail == env = "any" /\ nfault < MaxFaults

\* return values of mdiobus_write
WriteResults == {0} \cup (IF MayFail THEN Errnos ELSE {})

\* return values of mdiobus_read(bus, B53_PSEUDO_PHY, REG_MII_ADDR) while the
\* address register holds `word': the operation bits still set, or cleared
StatusResults(word) ==
    IF env = "any"
    THEN {word, word - BitAnd(word, 3)} \cup (IF MayFail THEN Errnos ELSE {})
    ELSE {IF dev.busy > 0 THEN dev.addr ELSE dev.addr - BitAnd(dev.addr, 3)}

\* return values of mdiobus_read(bus, B53_PSEUDO_PHY, REG_MII_DATA0 + k)
DataResults(k) ==
    IF env = "any"
    THEN {DataWord(k)} \cup (IF MayFail THEN Errnos ELSE {})
    ELSE {dev.slots[k + 1]}

\* the register file: a successful write of `v' to MII register `r';
\* `busy' is the number of status reads the triggered operation stays pending
DevWrite(d, r, v, busy) ==
    IF env = "any" THEN d
    ELSE IF r = REG_MII_PAGE
    THEN (IF BitAnd(v, REG_MII_PAGE_ENABLE) # 0
          THEN [d EXCEPT !.page = v \div 256] ELSE d)
    ELSE IF r = REG_MII_ADDR
    THEN LET cell == <<d.page, v \div 256>>
             op == BitAnd(v, 3) IN
         IF op = REG_MII_ADDR_WRITE
         THEN [d EXCEPT !.mem[cell] = d.slots, !.addr = v, !.busy = busy]
         ELSE IF op = REG_MII_ADDR_READ
         THEN [d EXCEPT !.slots = d.mem[cell], !.addr = v, !.busy = busy]
         ELSE d
    ELSE [d EXCEPT !.slots[r - REG_MII_DATA0 + 1] = v]

\* the register file: a status read consumes one unit of the operation's latency
DevStatusRead(d) ==
    IF env = "any" \/ d.busy = 0 THEN d ELSE [d EXCEPT !.busy = d.busy - 1]

\* latencies of the register file: complete at the first status read, or at
\* the last one the driver issues
BusyTimes ==
    IF env = "any" \/ sharing # "none" THEN {0} ELSE {0, PollAttempts - 1}

DevInit ==
    [page |-> 0, addr |-> 0, busy |-> 0, slots |-> Zero,
     mem |-> [c \in Pages \X Regs |-> Zero]]

\* log entries
WriteTx(r, v, res) == [t |-> "w", reg |-> r, v |-> v, res |-> res]
ReadTx(r, res) == [t |-> "r", reg |-> r, v |-> res, res |-> IF res < 0 THEN res ELSE 0]

NoCall == [name |-> "none", width |-> 0, page |-> 0, reg |-> 0, value |-> Zero]

NoPrev == [page |-> 0, sel |-> "none", timeout |-> FALSE]
NoLast == [call |-> NoCall, ret |-> 0]

(***************************************************************************)
(* The driver.                                                             *)
(***************************************************************************)
\* v = (page << 8) | REG_MII_PAGE_ENABLE
PageWord(page) == BitOr(page * 256, REG_MII_PAGE_ENABLE)

\* v = (reg << 8) | op
AddrWord(reg, op) == BitOr(reg * 256, op)

OpOfSwapped(name) == IF name = "write" THEN REG_MII_ADDR_READ ELSE REG_MII_ADDR_WRITE
OpOf(name) == IF name = "write" THEN REG_MII_ADDR_WRITE ELSE REG_MII_ADDR_READ

\* the operation is still pending: v & (REG_MII_ADDR_WRITE | REG_MII_ADDR_READ)
PendingAnyBit(v) == v # 0
Pending(v) == BitAnd(v, BitOr(REG_MII_ADDR_WRITE, REG_MII_ADDR_READ)) # 0

\* the word writeN stages in its next data register: value for write8 and
\* write16, temp & 0xffff for the others
StageWord(t) == BitAnd(t[1], 65535)

\* writeN gives up when mdiobus_write returned `res': if (ret) return ret
StageAbortsNever(res) == FALSE
StageAborts(res) == res # 0

\* dev->current_page after the page-select write returned `res'
PageCacheEager(res, page) == page
PageCacheStale(res, page) == current_page
PageCache(res, page) == IF res # 0 THEN current_page ELSE page

\* the data register writeN stages in iteration k of its loop
StageSlot(k) == REG_MII_DATA0 + k

\* the loop counter readN starts its data reads with, and the one that
\* follows k (-1: no further read): read32 reads DATA0 then DATA1, the loops
\* of read48 and read64 count down from 2 and 3
DrainFirstOff(w) == CASE w = 48 -> 3 [] w = 64 -> 3 [] OTHER -> 0
DrainFirst(w) == CASE w = 48 -> 2 [] w = 64 -> 3 [] OTHER -> 0
DrainNext(w, k) ==
    CASE w = 32 -> (IF k = 0 THEN 1 ELSE -1)
      [] w \in {48, 64} -> k - 1
      [] OTHER -> -1

\* the value readN has assembled after reading `r' from data register k
AssembleNoShift(w, k, acc, r) ==
    CASE w = 8  -> <<BitAnd(U16(r), 255), 0, 0, 0>>
      [] w = 16 -> <<U16(r), 0, 0, 0>>
      [] w = 32 -> (IF k = 0 THEN IntToU32(r) ELSE LimbOr(acc, IntToU32(r)))
      [] OTHER  -> LimbOr(acc, IntToU64(r))
Assemble(w, k, acc, r) ==
    CASE w = 8  -> <<BitAnd(U16(r), 255), 0, 0, 0>>
      [] w = 16 -> <<U16(r), 0, 0, 0>>
      [] w = 32 -> (IF k = 0 THEN IntToU32(r) ELSE LimbOr(acc, IntShl16ToU32(r)))
      [] OTHER  -> LimbOr(Shl16(acc), IntToU64(r))

\* b53_mdio_op has returned `r' to readN or writeN
AfterOp(r) ==
    IF r = 0 /\ fn.name = "read"
    THEN /\ pc' = "drain"
         /\ i' = DrainFirst(fn.width)
         /\ UNCHANGED ret
    ELSE /\ pc' = "ret"
         /\ ret' = r
         /\ UNCHANGED i

Enter(name, w, page, reg, value) ==
    /\ pc = "idle"
    /\ nacc < MaxAccesses
    /\ fn' = [name |-> name, width |-> w, page |-> page, reg |-> reg, value |-> value]
    /\ i' = 0
    /\ temp' = value
    /\ val' = NoVal
    /\ ret' = 0
    /\ log' = <<>>
    /\ nfault' = 0
    /\ entry_page' = current_page
    /\ preempted' = FALSE
    /\ UNCHANGED <<current_page, prev, last, nacc, env, dev, selected, sharing,
                   parked, nswitch>>

\* a caller invokes b53_mdio_readN(dev, page, reg, &val)
CallRead ==
    \E w \in CallWidths, page \in Pages, reg \in Regs :
        /\ Enter("read", w, page, reg, Zero)
        /\ pc' = "page"

\* a caller invokes b53_mdio_writeN(dev, page, reg, value)
CallWrite ==
    \E w \in CallWidths, page \in Pages, reg \in Regs :
        \E value \in CallValues(w) :
            /\ Enter("write", w, page, reg, value)
            /\ pc' = "stage"

\* writeN: one mdiobus_write of the staging loop
Stage ==
    /\ pc = "stage"
    /\ \E res \in WriteResults :
        /\ log' = Append(log, WriteTx(StageSlot(i), StageWord(temp), res))
        /\ nfault' = IF res # 0 THEN nfault + 1 ELSE nfault
        /\ dev' = IF res # 0 THEN dev
                  ELSE DevWrite(dev, StageSlot(i), StageWord(temp), 0)
        /\ IF StageAborts(res)
           THEN /\ ret' = res
                /\ pc' = "ret"
                /\ UNCHANGED <<i, temp>>
           ELSE /\ temp' = Shr16(temp)
                /\ i' = i + 1
                /\ pc' = IF i + 1 < NSlots(fn.width) THEN "stage" ELSE "page"
                /\ UNCHANGED ret
    /\ UNCHANGED <<current_page, fn, val, entry_page, prev, last, nacc, env,
                   selected, preempted, sharing, parked, nswitch>>

\* b53_mdio_op: set page number, unless dev->current_page is the page
SelectPage ==
    /\ pc = "page"
    /\ IF current_page # fn.page
       THEN \E res \in WriteResults :
            /\ log' = Append(log, WriteTx(REG_MII_PAGE, PageWord(fn.page), res))
            /\ current_page' = PageCache(res, fn.page)
            /\ selected' = IF res # 0 THEN selected ELSE fn.page
            /\ IF res # 0
               THEN /\ ret' = res
                    /\ pc' = "ret"
                    /\ nfault' = nfault + 1
                    /\ UNCHANGED dev
               ELSE /\ dev' = DevWrite(dev, REG_MII_PAGE, PageWord(fn.page), 0)
                    /\ pc' = "addr"
                    /\ UNCHANGED <<ret, nfault>>
       ELSE /\ pc' = "addr"
            /\ UNCHANGED <<current_page, selected, log, ret, nfault, dev>>
    /\ UNCHANGED <<fn, i, temp, val, entry_page, prev, last, nacc, env,
                   preempted, sharing, parked, nswitch>>

\* b53_mdio_op: set register address
SetAddr ==
    /\ pc = "addr"
    /\ \E res \in WriteResults, busy \in BusyTimes :
        LET v == AddrWord(fn.reg, OpOf(fn.name)) IN
        /\ log' = Append(log, WriteTx(REG_MII_ADDR, v, res))
        /\ IF res # 0
           THEN /\ ret' = res
                /\ pc' = "ret"
                /\ nfault' = nfault + 1
                /\ UNCHANGED <<i, dev>>
           ELSE /\ dev' = DevWrite(dev, REG_MII_ADDR, v, busy)
                /\ pc' = "poll"
                /\ i' = 0
                /\ UNCHANGED <<ret, nfault>>
    /\ UNCHANGED <<current_page, fn, temp, val, entry_page, prev, last, nacc, env,
                   selected, preempted, sharing, parked, nswitch>>

\* b53_mdio_op: one iteration of the completion loop, and what follows the
\* loop when this iteration ends it
Poll ==
    /\ pc = "poll"
    /\ \E r \in StatusResults(AddrWord(fn.reg, OpOf(fn.name))) :
        /\ log' = Append(log, ReadTx(REG_MII_ADDR, r))
        /\ nfault' = IF r < 0 THEN nfault + 1 ELSE nfault
        /\ dev' = DevStatusRead(dev)
        /\ IF ~Pending(U16(r))
           THEN /\ AfterOp(0)
                /\ temp' = Zero
           ELSE IF i + 1 < PollAttempts
           THEN /\ i' = i + 1
                /\ UNCHANGED <<pc, ret, temp>>
           ELSE /\ AfterOp(-EIO)
                /\ UNCHANGED temp
    /\ UNCHANGED <<current_page, fn, val, entry_page, prev, last, nacc, env,
                   selected, preempted, sharing, parked, nswitch>>

\* readN: one mdiobus_read of a data register
Drain ==
    /\ pc = "drain"
    /\ \E r \in DataResults(i) :
        LET acc == Assemble(fn.width, i, IF fn.width = 32 THEN val ELSE temp, r)
            next == DrainNext(fn.width, i) IN
        /\ log' = Append(log, ReadTx(REG_MII_DATA0 + i, r))
        /\ nfault' = IF r < 0 THEN nfault + 1 ELSE nfault
        /\ IF fn.width \in {48, 64}
           THEN /\ temp' = acc
                /\ val' = IF next < 0 THEN acc ELSE val
           ELSE /\ val' = acc
                /\ UNCHANGED temp
        /\ IF next < 0
           THEN /\ pc' = "ret"
                /\ ret' = 0
                /\ UNCHANGED i
           ELSE /\ i' = next
                /\ UNCHANGED <<pc, ret>>
    /\ UNCHANGED <<current_page, fn, entry_page, prev, last, nacc, env, dev,
                   selected, preempted, sharing, parked, nswitch>>

\* the page-select write of the access that is returning: none, ok or fail
SelOutcome ==
    LET sel == SelectSeq(log, LAMBDA e : e.t = "w" /\ e.reg = REG_MII_PAGE) IN
    IF sel = <<>> THEN "none" ELSE IF sel[1].res = 0 THEN "ok" ELSE "fail"

\* the access that is returning found the operation pending in every
\* iteration of the completion loop
TimedOut ==
    LET polls == SelectSeq(log, LAMBDA e : e.t = "r" /\ e.reg = REG_MII_ADDR) IN
    /\ Len(polls) = PollAttempts
    /\ \A k \in 1..Len(polls) : Pending(U16(polls[k].v))

\* the function returns to its caller
Return ==
    /\ pc = "ret"
    /\ pc' = "idle"
    /\ prev' = IF sharing # "none" THEN NoPrev
               ELSE [page |-> fn.page, sel |-> SelOutcome, timeout |-> TimedOut]
    /\ last' = IF env = "regfile" /\ sharing = "none"
               THEN [call |-> fn, ret |-> ret] ELSE NoLast
    /\ nacc' = nacc + 1
    /\ fn' = NoCall
    /\ i' = 0
    /\ temp' = Zero
    /\ val' = NoVal
    /\ ret' = 0
    /\ log' = <<>>
    /\ nfault' = 0
    /\ entry_page' = current_page
    /\ preempted' = FALSE
    /\ UNCHANGED <<current_page, env, dev, selected, sharing, parked, nswitch>>

(***************************************************************************)
(* Two callers.  The variables above are the state of the caller that is   *)
(* running; `parked' holds the state of the other one, and Switch lets the *)
(* other one run.  What a switch exchanges depends on what the callers     *)
(* share:                                                                  *)
(*   "handles"  two handles from two probes on two buses: nothing shared   *)
(*   "bus"      two handles from two probes on one bus (PHY addresses 0    *)
(*              and B53_PSEUDO_PHY): the switch behind the bus is shared;  *)
(*              the callers are serialized, a switch happens only between  *)
(*              accesses                                                   *)
(*   "handle"   two callers of one handle without a lock: the handle and   *)
(*              the bus are shared, only the locals of the functions are   *)
(*              the caller's own                                           *)
(*   "none"     a single caller                                            *)
(***************************************************************************)
\* a caller that has not called yet, on a handle fresh from b53_phy_probe
Fresh ==
    [pc |-> "idle", fn |-> NoCall, i |-> 0, temp |-> Zero, val |-> NoVal,
     ret |-> 0, log |-> <<>>, nfault |-> 0, entry_page |-> PAGE_UNKNOWN,
     preempted |-> FALSE, current_page |-> PAGE_UNKNOWN,
     selected |-> PAGE_UNKNOWN, prev |-> NoPrev, last |-> NoLast, nacc |-> 0,
     dev |-> DevInit]

\* each caller has its own struct b53_device / its own struct mii_bus
OwnHandle == sharing \in {"handles", "bus"}
OwnBus == sharing = "handles"

\* dev->current_page as the caller that resumes finds it
ResumePageGlobal(saved) == current_page
ResumePage(saved) == IF OwnHandle THEN saved ELSE current_page

\* the other caller runs
Switch ==
    /\ sharing # "none"
    /\ nswitch < MaxSwitches
    /\ sharing = "bus" => pc = "idle"
    /\ nswitch' = nswitch + 1
    /\ pc' = parked.pc
    /\ fn' = parked.fn
    /\ i' = parked.i
    /\ temp' = parked.temp
    /\ val' = parked.val
    /\ ret' = parked.ret
    /\ log' = parked.log
    /\ nfault' = parked.nfault
    /\ entry_page' = parked.entry_page
    /\ preempted' = parked.preempted
    /\ current_page' = ResumePage(parked.current_page)
    /\ selected' = IF OwnHandle THEN parked.selected ELSE selected
    /\ prev' = IF OwnHandle THEN parked.prev ELSE prev
    /\ last' = IF OwnHandle THEN parked.last ELSE last
    /\ nacc' = IF OwnHandle THEN parked.nacc ELSE nacc
    /\ dev' = IF OwnBus THEN parked.dev ELSE dev
    /\ parked' =
        [pc |-> pc, fn |-> fn, i |-> i, temp |-> temp, val |-> val,
         ret |-> ret, log |-> log, nfault |-> nfault,
         entry_page |-> entry_page,
         preempted |-> (preempted \/ pc \notin {"idle", "ret"}),
         current_page |-> IF OwnHandle THEN current_page ELSE parked.current_page,
         selected |-> IF OwnHandle THEN selected ELSE parked.selected,
         prev |-> IF OwnHandle THEN prev ELSE parked.prev,
         last |-> IF OwnHandle THEN last ELSE parked.last,
         nacc |-> IF OwnHandle THEN nacc ELSE parked.nacc,
         dev |-> IF OwnBus THEN dev ELSE parked.dev]
    /\ UNCHANGED <<env, sharing>>

\* b53_phy_probe: dev->current_page = 0xff
InitHandle ==
    /\ current_page = PAGE_UNKNOWN
    /\ pc = "idle"
    /\ fn = NoCall
    /\ i = 0
    /\ temp = Zero
    /\ val = NoVal
    /\ ret = 0
    /\ log = <<>>
    /\ nfault = 0
    /\ entry_page = PAGE_UNKNOWN
    /\ prev = NoPrev
    /\ last = NoLast
    /\ nacc = 0
    /\ dev = DevInit
    /\ selected = PAGE_UNKNOWN
    /\ preempted = FALSE
    /\ parked = Fresh
    /\ nswitch = 0

Init == InitHandle /\ env = "any" /\ sharing = "none"
InitDev == InitHandle /\ env = "regfile" /\ sharing = "none"
InitHandles == InitHandle /\ env = "regfile" /\ sharing = "handles"
InitBus == InitHandle /\ env = "regfile" /\ sharing = "bus"
InitCallers == InitHandle /\ env = "regfile" /\ sharing = "handle"

Next == CallRead \/ CallWrite \/ Stage \/ SelectPage \/ SetAddr \/ Poll \/ Drain \/ Return
NextTwo == Next \/ Switch

Spec == Init /\ [][Next]_vars
SpecDev == InitDev /\ [][Next]_vars
\* the caller keeps running and every mdiobus_read and mdiobus_write returns:
\* an access that has been called takes its next step
Progress == Stage \/ SelectPage \/ SetAddr \/ Poll \/ Drain
SpecLive == Init /\ [][Next]_vars /\ WF_vars(Progress)
SpecHandles == InitHandles /\ [][NextTwo]_vars
SpecBus == InitBus /\ [][NextTwo]_vars
SpecCallers == InitCallers /\ [][NextTwo]_vars

(***************************************************************************)
(* Views of the transaction log of the current access.                     *)
(***************************************************************************)
IsDataReg(r) == r >= REG_MII_DATA0 /\ r <= REG_MII_DATA0 + 3
PageSelects == SelectSeq(log, LAMBDA e : e.t = "w" /\ e.reg = REG_MII_PAGE)
AddrWrites == SelectSeq(log, LAMBDA e : e.t = "w" /\ e.reg = REG_MII_ADDR)
PollReads == SelectSeq(log, LAMBDA e : e.t = "r" /\ e.reg = REG_MII_ADDR)
DataWrites == SelectSeq(log, LAMBDA e : e.t = "w" /\ IsDataReg(e.reg))
DataReads == SelectSeq(log, LAMBDA e : e.t = "r" /\ IsDataReg(e.reg))
StagingFailed == \E k \in 1..Len(DataWrites) : DataWrites[k].res # 0
\* ceil(N / 16)
SlotCount(w) == (w + 15) \div 16

(***************************************************************************)
(* C1  Round trip, under the register file (SpecDev): when readN(page,     *)
(* reg) returns and the previous access was writeN(page, reg, V) of the    *)
(* same width, both returned 0 and *val is V.                              *)
(***************************************************************************)
RoundTrip ==
    (/\ pc = "ret"
     /\ fn.name = "read"
     /\ last.call.name = "write"
     /\ last.call.width = fn.width
     /\ last.call.page = fn.page
     /\ last.call.reg = fn.reg)
    => (last.ret = 0 /\ ret = 0 /\ val = last.call.value)

RoundTripWitness ==
    /\ pc = "ret"
    /\ fn.name = "read"
    /\ fn.width = 48
    /\ last.call.name = "write"
    /\ last.call.width = 48
    /\ last.call.page = fn.page
    /\ last.call.reg = fn.reg
    /\ ret = 0
    /\ val = <<65535, 32768, 65535, 0>>

(***************************************************************************)
(* C2  Sentinel forces first select: once the first access of a handle is  *)
(* past the page-select step of b53_mdio_op, it has issued a page-select   *)
(* write, whatever page it asked for.                                      *)
(***************************************************************************)
SentinelForcesFirstSelect ==
    (nacc = 0 /\ pc \in {"addr", "poll", "drain"}) => Len(PageSelects) = 1

(***************************************************************************)
(* C3  Page-cache elision, as claimed: when access B returns and the       *)
(* page-select write of the access A before it succeeded, B has issued no  *)
(* page-select write if its page is A's page and exactly one otherwise.    *)
(***************************************************************************)
PageCacheElisionAsClaimed ==
    (pc = "ret" /\ prev.sel = "ok")
    => Len(PageSelects) = (IF fn.page = prev.page THEN 0 ELSE 1)

(***************************************************************************)
(* C3  Page-cache elision, amended: B has issued no page-select write if   *)
(* its page is A's page or if B is a writeN that gave up while staging its *)
(* data registers, and exactly one otherwise.                              *)
(***************************************************************************)
PageCacheElision ==
    (pc = "ret" /\ prev.sel = "ok")
    => Len(PageSelects) = (IF fn.page = prev.page \/ StagingFailed THEN 0 ELSE 1)

PageCacheElisionWitness ==
    /\ pc = "ret"
    /\ prev.sel = "ok"
    /\ fn.page = prev.page
    /\ ret = 0
    /\ Len(AddrWrites) = 1
    /\ Len(PageSelects) = 0

(***************************************************************************)
(* C4  Timeout bound: an access never issues more than 5 reads of the      *)
(* address register; when it returns and every such read it issued showed  *)
(* the READ or WRITE bit set, it issued exactly 5 of them, returns -EIO    *)
(* and has read no data register.                                          *)
(***************************************************************************)
TimeoutBound ==
    /\ Len(PollReads) <= 5
    /\ (/\ pc = "ret"
        /\ PollReads # <<>>
        /\ \A k \in 1..Len(PollReads) : BitAnd(U16(PollReads[k].v), 3) # 0)
       => (Len(PollReads) = 5 /\ ret = -EIO /\ DataReads = <<>>)

TimeoutBoundWitness ==
    /\ pc = "ret"
    /\ fn.name = "read"
    /\ Len(PollReads) = 5
    /\ \A k \in 1..5 : PollReads[k].v = AddrWord(fn.reg, REG_MII_ADDR_READ)
    /\ ret = -EIO

(***************************************************************************)
(* C5  Abort before trigger: a failed write of a data register is the last *)
(* bus transaction of its access; the access has returned the error of     *)
(* that write and dev->current_page is what it was when the access began.  *)
(***************************************************************************)
AbortBeforeTrigger ==
    \A k \in 1..Len(log) :
        (log[k].t = "w" /\ IsDataReg(log[k].reg) /\ log[k].res # 0)
        => /\ k = Len(log)
           /\ pc = "ret"
           /\ ret = log[k].res
           /\ current_page = entry_page

AbortBeforeTriggerWitness ==
    /\ pc = "ret"
    /\ fn.name = "write"
    /\ fn.width = 32
    /\ fn.page # current_page
    /\ Len(log) = 2
    /\ log[2].reg = REG_MII_DATA0 + 1
    /\ log[2].res # 0

(***************************************************************************)
(* C6  Write slot ordering: the first ceil(N/16) transactions of writeN    *)
(* are the writes of data registers 0, 1, ... in that order, register i    *)
(* carrying bits 16i..16i+15 of value; every later transaction addresses   *)
(* the page or the address register, and the word written to the address   *)
(* register carries the WRITE bit.                                         *)
(***************************************************************************)
WriteSlotOrdering ==
    fn.name = "write" =>
        \A k \in 1..Len(log) :
            IF k <= SlotCount(fn.width)
            THEN /\ log[k].t = "w"
                 /\ log[k].reg = REG_MII_DATA0 + (k - 1)
                 /\ log[k].v = fn.value[k]
            ELSE /\ log[k].reg \in {REG_MII_PAGE, REG_MII_ADDR}
                 /\ (log[k].t = "w" /\ log[k].reg = REG_MII_ADDR)
                    => BitAnd(log[k].v, 3) = REG_MII_ADDR_WRITE

WriteSlotOrderingWitness ==
    /\ pc = "ret"
    /\ fn.name = "write"
    /\ fn.width = 64
    /\ fn.value = <<2, 1, 0, 0>>
    /\ ret = 0
    /\ Len(log) >= 6
    /\ [k \in 1..4 |-> log[k].v] = <<2, 1, 0, 0>>
    /\ log[5].reg = REG_MII_PAGE
    /\ log[6].reg = REG_MII_ADDR

SlotReadFailurePropagates ==
    (/\ pc = "ret"
     /\ fn.name = "read"
     /\ \E k \in 1..Len(DataReads) : DataReads[k].res # 0)
    => ret # 0

(***************************************************************************)
(* C9  Page-select failure: a failed page-select write is the last bus     *)
(* transaction of its access, which returns the error of that write with   *)
(* dev->current_page as it was.  As claimed, the next access, if it asks   *)
(* for the same page, issues a page-select write.                          *)
(***************************************************************************)
SelectFailureAborts ==
    \A k \in 1..Len(log) :
        (log[k].t = "w" /\ log[k].reg = REG_MII_PAGE /\ log[k].res # 0)
        => /\ fn.page # entry_page
           /\ k = Len(log)
           /\ pc = "ret"
           /\ ret = log[k].res
           /\ current_page = entry_page
           /\ AddrWrites = <<>>
           /\ PollReads = <<>>

PageSelectFailureAsClaimed ==
    /\ SelectFailureAborts
    /\ (pc = "ret" /\ prev.sel = "fail" /\ fn.page = prev.page)
       => Len(PageSelects) = 1

(***************************************************************************)
(* C9  Page-select failure, amended: the next access, if it asks for the   *)
(* same page and is not a writeN that gave up while staging its data       *)
(* registers, issues a page-select write.                                  *)
(***************************************************************************)
PageSelectFailure ==
    /\ SelectFailureAborts
    /\ (pc = "ret" /\ prev.sel = "fail" /\ fn.page = prev.page /\ ~StagingFailed)
       => Len(PageSelects) = 1

PageSelectFailureWitness ==
    /\ pc = "ret"
    /\ prev.sel = "fail"
    /\ fn.page = prev.page
    /\ Len(PageSelects) = 1
    /\ PageSelects[1].res = 0
    /\ ret = 0

(***************************************************************************)
(* C10  No swallowed error: an access in which a completion-poll read of   *)
(* the address register failed does not return 0.                          *)
(***************************************************************************)
NoSwallowedError ==
    (pc = "ret" /\ \E k \in 1..Len(PollReads) : PollReads[k].res # 0)
    => ret # 0

(***************************************************************************)
(* C11  Retry after timeout.  As claimed: when an access has timed out and *)
(* the next access on the handle is to the same page, that access issues   *)
(* the page-select write again before its address write.                   *)
(***************************************************************************)
RetryReselectsAsClaimed ==
    (/\ prev.timeout
     /\ fn.page = prev.page
     /\ pc \in {"addr", "poll", "drain"})
    => Len(PageSelects) = 1

\* C11 as the code has it: the timeout leaves dev->current_page at the page
\* of the access, so the next access to the same page issues no page-select
\* write at all
RetryAfterTimeout ==
    (prev.timeout /\ pc # "idle" /\ fn.page = prev.page)
    => (Len(PageSelects) = 0 /\ current_page = fn.page)

RetryAfterTimeoutWitness ==
    /\ prev.timeout
    /\ pc = "ret"
    /\ ret = 0
    /\ fn.page = prev.page
    /\ Len(AddrWrites) = 1
    /\ Len(PageSelects) = 0

(***************************************************************************)
(* C12  Independence across handles, for two handles on two buses whose    *)
(* accesses interleave between any two bus transactions (SpecHandles):     *)
(* each handle's current_page is the page of its own last successful       *)
(* page-select write, the page register behind its bus holds that page,    *)
(* and an access passes the page step without a page-select write only     *)
(* when its own handle selected that page last (or never selected, and the *)
(* page is the initial 0xff) -- whatever the other handle has cached.      *)
(***************************************************************************)
OwnCache(c) ==
    /\ c.current_page = c.selected
    /\ c.selected # PAGE_UNKNOWN => c.dev.page = c.selected
    /\ LET sel == SelectSeq(c.log, LAMBDA e : e.t = "w" /\ e.reg = REG_MII_PAGE) IN
       /\ (c.pc \in {"addr", "poll", "drain"} /\ sel = <<>>)
            => (c.fn.page = c.selected /\ c.fn.page = c.entry_page)
       /\ (c.pc \in {"addr", "poll", "drain"} /\ sel # <<>>)
            => (c.fn.page # c.entry_page /\ sel[1].res = 0)

Running ==
    [pc |-> pc, fn |-> fn, log |-> log, entry_page |-> entry_page,
     current_page |-> current_page, selected |-> selected, dev |-> dev]

\* all of the state of the caller that is running
RunningState ==
    [pc |-> pc, fn |-> fn, i |-> i, temp |-> temp, val |-> val, ret |-> ret,
     log |-> log, nfault |-> nfault, entry_page |-> entry_page,
     preempted |-> FALSE, current_page |-> current_page,
     selected |-> selected, prev |-> prev, last |-> last, nacc |-> nacc,
     dev |-> dev]

\* a step of one handle leaves the other handle, its bus included, as it
\* was, and a handle resumes in exactly the state in which it was left: each
\* handle goes through the states of a handle that runs alone
HandleKeepsState ==
    /\ nswitch' = nswitch => parked' = parked
    /\ nswitch' # nswitch =>
        /\ [parked' EXCEPT !.preempted = FALSE] = RunningState
        /\ RunningState' = [parked EXCEPT !.preempted = FALSE]

HandlesIndependent ==
    /\ [](OwnCache(Running) /\ OwnCache(parked))
    /\ [][HandleKeepsState]_vars

\* the other handle is in the middle of an access with page p cached; this
\* handle, fresh from probe, has issued its own page-select write for p
HandlesIndependentWitness ==
    /\ parked.pc = "poll"
    /\ parked.current_page = 1
    /\ pc = "addr"
    /\ entry_page = PAGE_UNKNOWN
    /\ fn.page = 1
    /\ Len(PageSelects) = 1
    /\ current_page = 1

(***************************************************************************)
(* C13  Page-cache invariant, under arbitrary transport failures and       *)
(* timeouts (Spec): current_page is the page of the most recent            *)
(* page-select write that succeeded on the handle, 0xff if none has; in    *)
(* the course of an access it is the value it had when the access was      *)
(* called until the access's page-select write succeeds and the requested  *)
(* page from then on, whatever the address write and the poll do later.    *)
(***************************************************************************)
PageCacheInvariant ==
    /\ current_page = selected
    /\ pc = "idle" => current_page = entry_page
    /\ pc # "idle" =>
        current_page =
            IF \E k \in 1..Len(PageSelects) : PageSelects[k].res = 0
            THEN fn.page ELSE entry_page

\* the page-select write to a new page succeeded, the address write failed
PageCacheInvariantWitness ==
    /\ pc = "ret"
    /\ ret = -16
    /\ entry_page = 0
    /\ fn.page = 1
    /\ Len(PageSelects) = 1
    /\ PageSelects[1].res = 0
    /\ Len(AddrWrites) = 1
    /\ AddrWrites[1].res = -16
    /\ current_page = 1

(***************************************************************************)
(* C14  Drain only after completion: in a readN, a data register is read   *)
(* only after a poll read of REG_MII_ADDR returned a register value with   *)
(* neither REG_MII_ADDR_READ nor REG_MII_ADDR_WRITE set; a readN that      *)
(* fails at the page-select write, at the address write or by timeout has  *)
(* read no data register and has not written *val.                         *)
(***************************************************************************)
CompletionSeen ==
    \E k \in 1..Len(PollReads) :
        PollReads[k].res = 0 /\ BitAnd(PollReads[k].v, 3) = 0

FailedReadLeavesVal ==
    (fn.name = "read" /\ pc = "ret" /\ ret # 0)
    => (Len(DataReads) = 0 /\ val = NoVal)

DrainAfterCompletion ==
    /\ (fn.name = "read" /\ Len(DataReads) > 0) => CompletionSeen
    /\ FailedReadLeavesVal

(***************************************************************************)
(* C15  Poll early exit: the first poll read whose word has neither        *)
(* REG_MII_ADDR_READ nor REG_MII_ADDR_WRITE set is the last read of        *)
(* REG_MII_ADDR of the access, whether it is the first or the fifth, and   *)
(* b53_mdio_op returns 0 on it: a readN goes on to its data registers, a   *)
(* writeN returns 0.                                                       *)
(***************************************************************************)
BitsClear(e) == BitAnd(U16(e.v), 3) = 0

PollEarlyExit ==
    \A k \in 1..Len(PollReads) :
        BitsClear(PollReads[k]) =>
            /\ k = Len(PollReads)
            /\ pc \in {"drain", "ret"}
            /\ pc = "drain" => fn.name = "read"
            /\ pc = "ret" => ret = 0

\* completion is seen on the last permitted attempt
PollEarlyExitWitness ==
    /\ pc = "ret"
    /\ ret = 0
    /\ fn.name = "write"
    /\ Len(PollReads) = 5
    /\ \A k \in 1..4 : PollReads[k].res = 0 /\ ~BitsClear(PollReads[k])
    /\ PollReads[5].res = 0
    /\ BitsClear(PollReads[5])

(***************************************************************************)
(* C16  Read reassembly: a readN that returns 0 has stored in *val the     *)
(* contents of data slots 0..ceil(N/16)-1, slot i at bit offset 16*i, and  *)
(* read8 the low 8 bits of slot 0; the other slots do not show in *val.    *)
(***************************************************************************)
\* what data slot k holds when the operation is complete
SlotContent(k) == IF env = "any" THEN DataWord(k) ELSE dev.slots[k + 1]

Reassembled(w) ==
    [k \in 1..4 |->
        IF k > SlotCount(w) THEN 0
        ELSE IF w = 8 THEN BitAnd(SlotContent(0), 255)
        ELSE SlotContent(k - 1)]

ReadReassembly ==
    (pc = "ret" /\ fn.name = "read" /\ ret = 0) => val = Reassembled(fn.width)

(***************************************************************************)
(* C17  Unsafe within one handle, for two callers of one handle whose      *)
(* accesses interleave between any two bus transactions (SpecCallers):     *)
(* nothing in an access keeps the other caller from running in the middle  *)
(* of it, and the WRITE trigger of a writeN commits the caller's value     *)
(* only as long as the caller was not switched out during the access.      *)
(* CallersMixWitness is the state of the claim: both writes have returned  *)
(* 0 and the register holds a mixture of the two values.                   *)
(***************************************************************************)
\* the running caller has just issued the WRITE trigger of its writeN
JustTriggeredWrite ==
    /\ pc = "poll"
    /\ fn.name = "write"
    /\ Len(PollReads) = 0

CallersUnprotected ==
    /\ (pc # "idle" /\ nswitch < MaxSwitches) => ENABLED Switch
    /\ (JustTriggeredWrite /\ ~preempted) =>
        \A k \in 1..NSlots(fn.width) :
            dev.mem[<<dev.page, fn.reg>>][k] = fn.value[k]

CallersMixWitness ==
    /\ pc = "ret"
    /\ ret = 0
    /\ fn.name = "write"
    /\ fn.width = 64
    /\ preempted
    /\ parked.pc = "ret"
    /\ parked.ret = 0
    /\ parked.fn.name = "write"
    /\ parked.fn.width = 16
    /\ LET c == dev.mem[<<fn.page, fn.reg>>] IN
       /\ c[1] = parked.fn.value[1]
       /\ c[1] # fn.value[1]
       /\ \A k \in 2..4 : c[k] = fn.value[k]

(***************************************************************************)
(* C18  Termination, whatever the bus and the device do (SpecLive): an     *)
(* access that has been called returns, with 0, with -EIO after five       *)
(* pending poll reads, or with the errno of the bus write that failed,     *)
(* and by then it has issued at most 11 bus transactions: at most 4 on     *)
(* data registers, 1 page-select write, 1 address write and 5 poll reads.  *)
(***************************************************************************)
TransactionBudget ==
    /\ Len(log) <= 11
    /\ Len(DataWrites) + Len(DataReads) <= 4
    /\ Len(PageSelects) <= 1
    /\ Len(AddrWrites) <= 1
    /\ Len(PollReads) <= 5

ReturnsOneOutcome ==
    pc = "ret" =>
        \/ ret = 0
        \/ ret = -EIO /\ TimedOut
        \/ /\ ret \in Errnos
           /\ ~TimedOut
           /\ log[Len(log)].t = "w"
           /\ log[Len(log)].res = ret

Termination ==
    /\ [](TransactionBudget /\ ReturnsOneOutcome)
    /\ (pc \notin {"idle", "ret"}) ~> (pc = "ret")

\* a write64 that selects its page and times out used all 11 transactions
TerminationWitness ==
    /\ pc = "ret"
    /\ ret = -EIO
    /\ Len(log) = 11
    /\ Len(DataWrites) = 4
    /\ Len(PageSelects) = 1
    /\ Len(PollReads) = 5

(***************************************************************************)
(* C19  Correct page at trigger, for serialized accesses of two handles    *)
(* that b53_phy_probe bound to one bus (SpecBus): when an access to a page *)
(* in 0..0xfe has issued its address write, the page register behind the   *)
(* bus holds the page of the access.                                       *)
(***************************************************************************)
PageAtTrigger ==
    (/\ pc = "poll"
     /\ Len(PollReads) = 0
     /\ fn.page # PAGE_UNKNOWN)
    => dev.page = fn.page

(***************************************************************************)
(* C20  Frame of an access: a readN writes no data register and its        *)
(* address word has REG_MII_ADDR_READ and not REG_MII_ADDR_WRITE; a writeN *)
(* writes data registers 0..ceil(N/16)-1 and no other, reads no data       *)
(* register, and its address word has REG_MII_ADDR_WRITE and not           *)
(* REG_MII_ADDR_READ.                                                      *)
(***************************************************************************)
AddrWordHas(op, other) ==
    \A k \in 1..Len(AddrWrites) :
        /\ BitAnd(AddrWrites[k].v, op) # 0
        /\ BitAnd(AddrWrites[k].v, other) = 0

AccessFrame ==
    /\ fn.name = "read" =>
        /\ Len(DataWrites) = 0
        /\ AddrWordHas(REG_MII_ADDR_READ, REG_MII_ADDR_WRITE)
    /\ fn.name = "write" =>
        /\ \A k \in 1..Len(DataWrites) :
            /\ DataWrites[k].reg >= REG_MII_DATA0
            /\ DataWrites[k].reg < REG_MII_DATA0 + SlotCount(fn.width)
        /\ Len(DataReads) = 0
        /\ AddrWordHas(REG_MII_ADDR_WRITE, REG_MII_ADDR_READ)
    /\ \A k \in 1..Len(log) :
        log[k].reg \in {REG_MII_PAGE, REG_MII_ADDR} \/ IsDataReg(log[k].reg)

\* a completed write32: data registers 0 and 1 and a WRITE trigger
AccessFrameWitness ==
    /\ pc = "ret"
    /\ ret = 0
    /\ fn.name = "write"
    /\ fn.width = 32
    /\ Len(DataWrites) = 2
    /\ DataWrites[1].reg = REG_MII_DATA0
    /\ DataWrites[2].reg = REG_MII_DATA0 + 1
    /\ Len(AddrWrites) = 1
    /\ AddrWrites[1].v = AddrWord(fn.reg, REG_MII_ADDR_WRITE)

====
